---------------------------- MODULE Spec2Model ----------------------------
(***************************************************************************)
(* The clinic assistant of src/main.py and src/google_calendar.py: the     *)
(* conversation router (POST /agente), its tools, and the booking          *)
(* transaction (POST /agendamentos) over the local store and the external  *)
(* calendar.                                                               *)
(*                                                                         *)
(* Texts are sequences of one-character strings, so that lower(), split(), *)
(* the keyword search and strptime are computed and not assumed.  Accented *)
(* letters are written by name ("ccedil", "aacute", "iacute").  Times of   *)
(* day are minutes after midnight.                                         *)
(*                                                                         *)
(* What lies outside src/ is an environment choice of the step that calls  *)
(* it: each call of the calendar client returns or raises, each commit     *)
(* succeeds or raises, dateparser yields a date or None.  Two places where *)
(* the outcome is the library's and not the repository's:                  *)
(*   - authenticate_google() returns the credentials object                *)
(*     (google_calendar.py:25) and main.py:189 hands it on as `service`;   *)
(*     what service.events() does on it is the client library's business,  *)
(*     so a calendar call made through it either returns or raises;        *)
(*   - Paciente declares no dados_agendamento column (main.py:13-18); the  *)
(*     assignment at main.py:281 either raises or sets an attribute of the *)
(*     Python object that no commit writes.                                *)
(***************************************************************************)
EXTENDS Integers, Sequences, FiniteSets, TLC

\* ------------------------------------------------------------------ bounds

\* Events the calendar accepts in one run (caps the event id counter).
MaxEventos == 2

\* Events on the calendar when the free slots of a day are asked for.
MaxOcupados == 2

\* ---------------------------------------------------------------- days

\* Calendar days.
Datas == {1, 2}

\* ------------------------------------------------------------ text functions

Maiusculas == << "A", "B", "C", "D", "E", "F", "G", "H", "I", "J", "K", "L", "M",
                 "N", "O", "P", "Q", "R", "S", "T", "U", "V", "W", "X", "Y", "Z",
                 "Aacute", "Ccedil", "Iacute" >>

Minusculas == << "a", "b", "c", "d", "e", "f", "g", "h", "i", "j", "k", "l", "m",
                 "n", "o", "p", "q", "r", "s", "t", "u", "v", "w", "x", "y", "z",
                 "aacute", "ccedil", "iacute" >>

\* str.lower() on one character.
LowerChar(c) ==
    IF \E i \in 1..Len(Maiusculas) : Maiusculas[i] = c
    THEN Minusculas[CHOOSE i \in 1..Len(Maiusculas) : Maiusculas[i] = c]
    ELSE c

\* str.lower()
Lower(text) == [i \in 1..Len(text) |-> LowerChar(text[i])]

\* `keyword in text`: substring search.
Contains(text, keyword) ==
    \E i \in 1..(Len(text) - Len(keyword) + 1) :
        SubSeq(text, i, i + Len(keyword) - 1) = keyword

agendamento_keywords ==
    << <<"m", "a", "r", "c", "a", "r">>,
       <<"a", "g", "e", "n", "d", "a", "r">>,
       <<"a", "g", "e", "n", "d", "a", "m", "e", "n", "t", "o">>,
       <<"c", "o", "n", "s", "u", "l", "t", "a">>,
       <<"h", "o", "r", "aacute", "r", "i", "o">>,
       <<"h", "o", "r", "a", "r", "i", "o">> >>

orcamento_keywords ==
    << <<"p", "r", "e", "ccedil", "o">>,
       <<"p", "r", "e", "c", "o">>,
       <<"v", "a", "l", "o", "r">>,
       <<"q", "u", "a", "n", "t", "o">>,
       <<"c", "u", "s", "t", "a">>,
       <<"c", "u", "s", "t", "o">> >>

saudacao_keywords ==
    << <<"o", "i">>,
       <<"o", "l", "aacute">>,
       <<"o", "l", "a">>,
       <<"b", "o", "m", " ", "d", "i", "a">>,
       <<"b", "o", "a", " ", "t", "a", "r", "d", "e">>,
       <<"b", "o", "a", " ", "n", "o", "i", "t", "e">>,
       <<"e", " ", "a", "iacute">>,
       <<"t", "u", "d", "o", " ", "b", "e", "m">> >>

\* any(keyword in text for keyword in keywords)
AnyKeyword(keywords, text) ==
    \E k \in 1..Len(keywords) : Contains(text, keywords[k])

\* Faulty variant of the classifier below: the greeting keywords are looked
\* for before the price keywords.
classify_intent_saudacao(text) ==
    IF text = <<>>
    THEN [intent |-> "UNKNOWN", confidence |-> 0]
    ELSE LET t == Lower(text) IN
         IF AnyKeyword(agendamento_keywords, t)
         THEN [intent |-> "SCHEDULE_APPOINTMENT", confidence |-> 9]
         ELSE IF AnyKeyword(saudacao_keywords, t)
         THEN [intent |-> "GREETING", confidence |-> 9]
         ELSE IF AnyKeyword(orcamento_keywords, t)
         THEN [intent |-> "REQUEST_PRICE", confidence |-> 9]
         ELSE [intent |-> "UNKNOWN", confidence |-> 3]

\* Faulty variant of the classifier below: the price keywords are looked
\* for first and taken as a scheduling request.
classify_intent_preco(text) ==
    IF text = <<>>
    THEN [intent |-> "UNKNOWN", confidence |-> 0]
    ELSE LET t == Lower(text) IN
         IF AnyKeyword(orcamento_keywords, t) \/ AnyKeyword(agendamento_keywords, t)
         THEN [intent |-> "SCHEDULE_APPOINTMENT", confidence |-> 9]
         ELSE IF AnyKeyword(saudacao_keywords, t)
         THEN [intent |-> "GREETING", confidence |-> 9]
         ELSE [intent |-> "UNKNOWN", confidence |-> 3]

\* classify_intent; confidence in tenths (0.0, 0.3, 0.9).
classify_intent(text) ==
    IF text = <<>>
    THEN [intent |-> "UNKNOWN", confidence |-> 0]
    ELSE LET t == Lower(text) IN
         IF AnyKeyword(agendamento_keywords, t)
         THEN [intent |-> "SCHEDULE_APPOINTMENT", confidence |-> 9]
         ELSE IF AnyKeyword(orcamento_keywords, t)
         THEN [intent |-> "REQUEST_PRICE", confidence |-> 9]
         ELSE IF AnyKeyword(saudacao_keywords, t)
         THEN [intent |-> "GREETING", confidence |-> 9]
         ELSE [intent |-> "UNKNOWN", confidence |-> 3]

\* request.senderId.split('@')[0]
SenderIdLimpo(senderId) ==
    IF \E i \in 1..Len(senderId) : senderId[i] = "@"
    THEN SubSeq(senderId, 1,
                (CHOOSE i \in 1..Len(senderId) :
                    /\ senderId[i] = "@"
                    /\ \A j \in 1..(i - 1) : senderId[j] # "@") - 1)
    ELSE senderId

\* ------------------------------------------------------------ dates and times

Digitos == << "0", "1", "2", "3", "4", "5", "6", "7", "8", "9" >>

IsDigit(c) == \E i \in 1..10 : Digitos[i] = c

DigitVal(c) == (CHOOSE i \in 1..10 : Digitos[i] = c) - 1

\* The value of one or two digits.
Numero(s) ==
    IF Len(s) = 1 THEN DigitVal(s[1]) ELSE 10 * DigitVal(s[1]) + DigitVal(s[2])

\* date.isoformat(): one atom per day ("2025-06-16", "2025-06-17").
Isoformat(data) == IF data = 1 THEN "2025-06-16" ELSE "2025-06-17"

\* Whether strptime's %H:%M accepts a character sequence: one or two digits
\* up to 23, a colon, one or two digits up to 59, and nothing else.
HMValida(s) ==
    /\ \E i \in 1..Len(s) : s[i] = ":"
    /\ LET i == CHOOSE i \in 1..Len(s) : s[i] = ":" /\ \A j \in 1..(i - 1) : s[j] # ":"
           h == SubSeq(s, 1, i - 1)
           m == SubSeq(s, i + 1, Len(s))
       IN  /\ Len(h) \in {1, 2}
           /\ Len(m) \in {1, 2}
           /\ \A j \in 1..Len(h) : IsDigit(h[j])
           /\ \A j \in 1..Len(m) : IsDigit(m[j])
           /\ Numero(h) <= 23
           /\ Numero(m) <= 59

\* The minutes after midnight that %H:%M reads from an accepted sequence.
ParseHM(s) ==
    LET i == CHOOSE i \in 1..Len(s) : s[i] = ":" /\ \A j \in 1..(i - 1) : s[j] # ":"
    IN  60 * Numero(SubSeq(s, 1, i - 1)) + Numero(SubSeq(s, i + 1, Len(s)))

\* Whether datetime.strptime(data_hora_str, '%Y-%m-%d %H:%M') returns (it
\* raises ValueError otherwise): the text is a date atom, a blank, and a
\* time of day.
StrptimeOk(data_hora_str) ==
    /\ Len(data_hora_str) >= 3
    /\ \E d \in Datas : Isoformat(d) = data_hora_str[1]
    /\ data_hora_str[2] = " "
    /\ HMValida(SubSeq(data_hora_str, 3, Len(data_hora_str)))

\* What strptime returns: the day and the minutes after midnight.
Strptime(data_hora_str) ==
    [data   |-> CHOOSE d \in Datas : Isoformat(d) = data_hora_str[1],
     inicio |-> ParseHM(SubSeq(data_hora_str, 3, Len(data_hora_str)))]

\* f"{data_str} {mensagem}"
DataHoraStr(data_str, mensagem) == << data_str, " " >> \o mensagem

\* strftime('%H:%M')
StrftimeHM(minutos) ==
    << Digitos[((minutos \div 60) \div 10) + 1], Digitos[((minutos \div 60) % 10) + 1], ":",
       Digitos[((minutos % 60) \div 10) + 1], Digitos[((minutos % 60) % 10) + 1] >>

\* ------------------------------------------------------------ free slots

\* Faulty variant of the window's end below: the loop also runs at 18:00.
FimDoDiaIncluido == 1080 + 1

\* time(9, 0) and time(18, 0), in minutes.
InicioDoDia == 540
FimDoDia == 1080
\* timedelta(hours=1)
DuracaoConsulta == 60

\* Faulty variant of the test below: an event that only touches the slot's
\* boundary blocks it.
EstaLivreFechado(horario_atual, proximo_horario, eventos_ocupados) ==
    \A k \in 1..Len(eventos_ocupados) :
        \/ proximo_horario < eventos_ocupados[k].inicio
        \/ horario_atual > eventos_ocupados[k].fim

\* The inner for loop: the slot [horario_atual, proximo_horario) conflicts
\* with no event of the list.
EstaLivre(horario_atual, proximo_horario, eventos_ocupados) ==
    \A k \in 1..Len(eventos_ocupados) :
        \/ proximo_horario <= eventos_ocupados[k].inicio
        \/ horario_atual >= eventos_ocupados[k].fim

RECURSIVE HorariosLivresDe(_, _)
\* The while loop from horario_atual on.
HorariosLivresDe(horario_atual, eventos_ocupados) ==
    IF horario_atual < FimDoDia
    THEN LET proximo_horario == horario_atual + DuracaoConsulta IN
         (IF EstaLivre(horario_atual, proximo_horario, eventos_ocupados)
          THEN << StrftimeHM(horario_atual) >>
          ELSE << >>)
         \o HorariosLivresDe(proximo_horario, eventos_ocupados)
    ELSE << >>

\* The slot computation of get_horarios_disponiveis on the listed events.
HorariosLivres(eventos_ocupados) == HorariosLivresDe(InicioDoDia, eventos_ocupados)


\* ------------------------------------------------------------------ state

VARIABLES
    pacientes,      \* table paciente: rows [id, sender_id, estado_conversa]
    agendamentos,   \* table agendamento: rows [id, paciente_id, data, inicio, fim, id_evento_google]
    eventos,        \* the events this program created that are still on the calendar
    criados,        \* how many events the calendar has created for this program (its id counter)
    deletes,        \* the events().delete calls issued, in order: [evento, ok]
    pc,             \* per worker: "idle", "agente", "salvar", "compensar", "respondido"
    req,            \* per worker: the request it serves
    pac,            \* per worker: the Paciente object its session loaded
    ev,             \* per worker: evento_google, the event its booking created
    resp            \* per worker: the response, once sent, and what the request met

\* The request handlers that may run at the same time.
Workers == {"w1", "w2"}

vars == << pacientes, agendamentos, eventos, criados, deletes, pc, req, pac, ev, resp >>

\* paciente.estado_conversa
SemEstado == "None"
AguardandoData == "aguardando_data_agendamento"
AguardandoHorario == "aguardando_escolha_horario"

\* An attribute the Python object does not have (reading it raises
\* AttributeError); a dict is the sequence of its keys and values.
SemAtributo == << "AttributeError" >>

NoPaciente ==
    [id |-> 0, sender_id |-> << >>, estado_conversa |-> SemEstado,
     dados_agendamento |-> SemAtributo]

NoEvento == [id |-> 0, data |-> 0, inicio |-> 0, fim |-> 0]

ReqVazio == [rota |-> "idle", sender |-> << >>, texto |-> << >>]

\* A response: the HTTP status, what it says (tag), the tool that produced
\* it; and what the request met on its way: the date resolved (0: none),
\* the free slots listed, the outcome of the compensating delete, and the
\* collaborator that raised ("nenhuma": none did).
Resp(status, tag, ferramenta) ==
    [status |-> status, tag |-> tag, ferramenta |-> ferramenta,
     data |-> 0, horarios |-> << >>, remocao |-> "nenhuma", falha |-> "nenhuma"]

RespVazia == Resp(0, "nenhuma", "nenhuma")

\* Faulty variant of the load below: the object comes back with a booking
\* context, as if the table had a column for it.
CarregarComContexto(row) ==
    [id |-> row.id, sender_id |-> row.sender_id,
     estado_conversa |-> row.estado_conversa,
     dados_agendamento |-> << "data", "2025-06-16" >>]

\* The mapped columns of Paciente that the model follows: a row read by a
\* session becomes an object with these attributes and no other.
Carregar(row) ==
    [id |-> row.id, sender_id |-> row.sender_id,
     estado_conversa |-> row.estado_conversa,
     dados_agendamento |-> SemAtributo]

\* Faulty variant of the select below: the where clause is missing and the
\* first row of the table is loaded.
SelectPrimeiro(sender) ==
    IF pacientes = {} THEN NoPaciente
    ELSE Carregar(CHOOSE p \in pacientes : \A q \in pacientes : p.id <= q.id)

\* select(Paciente).where(Paciente.sender_id == sender).first()
SelectPaciente(sender) ==
    LET rows == {p \in pacientes : p.sender_id = sender} IN
    IF rows = {} THEN NoPaciente
    ELSE Carregar(CHOOSE p \in rows : \A q \in rows : p.id <= q.id)

\* session.add(paciente); session.commit() of a loaded object: the UPDATE
\* writes the mapped columns of the row with the object's id.
UpdatePaciente(obj) ==
    {IF p.id = obj.id THEN [p EXCEPT !.estado_conversa = obj.estado_conversa] ELSE p
        : p \in pacientes}

Init ==
    /\ pacientes = {}
    /\ agendamentos = {}
    /\ eventos = {}
    /\ criados = 0
    /\ deletes = << >>
    /\ pc = [w \in Workers |-> "idle"]
    /\ req = [w \in Workers |-> ReqVazio]
    /\ pac = [w \in Workers |-> NoPaciente]
    /\ ev = [w \in Workers |-> NoEvento]
    /\ resp = [w \in Workers |-> RespVazia]

\* The request r of worker w, whose session loaded patient p, is answered.
Responder(w, r, p, resposta) ==
    /\ pc' = [pc EXCEPT ![w] = "respondido"]
    /\ req' = [req EXCEPT ![w] = r]
    /\ pac' = [pac EXCEPT ![w] = p]
    /\ resp' = [resp EXCEPT ![w] = resposta]

\* The request is over: the session is closed and the worker is free.
Fechar(w) ==
    /\ pc[w] = "respondido"
    /\ pc' = [pc EXCEPT ![w] = "idle"]
    /\ req' = [req EXCEPT ![w] = ReqVazio]
    /\ pac' = [pac EXCEPT ![w] = NoPaciente]
    /\ ev' = [ev EXCEPT ![w] = NoEvento]
    /\ resp' = [resp EXCEPT ![w] = RespVazia]
    /\ UNCHANGED << pacientes, agendamentos, eventos, criados, deletes >>

\* ------------------------------------------------------------ the calendar

\* What a call of the calendar client does: it returns, it raises HttpError,
\* or it raises something else.
Resultados == {"ok", "HttpError", "erro"}

RECURSIVE Ordenar(_)
\* orderBy='startTime': a set of events as a list in ascending start order.
Ordenar(S) ==
    IF S = {} THEN << >>
    ELSE LET e == CHOOSE x \in S : \A y \in S : x.inicio <= y.inicio
         IN  << e >> \o Ordenar(S \ {e})

\* events().list for one day between time_min and time_max: the events of
\* this program on that day that meet the window, and the others.
ListarEventos(data, outros) ==
    Ordenar({[inicio |-> e.inicio, fim |-> e.fim] :
                e \in {x \in eventos : /\ x.data = data
                                       /\ x.fim > InicioDoDia
                                       /\ x.inicio < FimDoDia}}
            \cup {outros[k] : k \in 1..Len(outros)})

\* get_horarios_disponiveis: authenticate_google raises without credentials;
\* HttpError from the listing gives the empty list; any other exception of
\* the listing or of reading an event's times is not caught here.
get_horarios_disponiveis(data_desejada, auth, listagem, outros) ==
    IF ~auth \/ listagem = "erro"
    THEN [raised |-> TRUE, horarios |-> << >>]
    ELSE IF listagem = "HttpError"
    THEN [raised |-> FALSE, horarios |-> << >>]
    ELSE [raised |-> FALSE,
          horarios |-> HorariosLivres(ListarEventos(data_desejada, outros))]

\* ------------------------------------------------------------ POST /agendamentos

\* Faulty variants of the three tests below, against which the booking
\* properties are shown to depend on them: the lookup's result is never
\* tested, the compensation runs after a successful save, the compensation
\* never runs, and the compensation issues no delete.
PacienteSempreEncontrado(paciente) == TRUE

CompensaSempre(commit) == TRUE

CompensaNunca(commit) == FALSE

DeveRemoverNunca(evento_google) == FALSE

\* `if not paciente` (main.py:168)
PacienteEncontrado(paciente) == paciente.id # 0

\* The except clause of main.py:227: the compensation runs when saving raised.
Compensa(commit) == ~commit

\* `if evento_google and 'id' in evento_google` (main.py:233)
DeveRemover(evento_google) == evento_google.id # 0

\* Faulty variant of the id below: a second insert is given the id of the
\* first event, as if the calendar recognised the booking.
EventoIdRepetido(n) == IF n = 0 THEN 1 ELSE n

\* evento_criado of events().insert (google_calendar.py:97): the calendar
\* gives the new event an id that none of the n events before it has.
NovoEventoId(n) == n + 1

\* How criar_agendamento's HTTPException reaches the user: as the HTTP error
\* of the endpoint, or, called by ferramenta_processar_horario, as the reply
\* of main.py:331-335, which carries the error's detail.
FalharAgendamento(w, r, p, status, tag, remocao) ==
    Responder(w, r, p,
        [(IF r.rota = "agendamentos"
          THEN Resp(status, tag, "criar_agendamento")
          ELSE Resp(200, tag, "processar_horario"))
         EXCEPT !.remocao = remocao])

\* criar_agendamento up to and including the calendar's insert
\* (main.py:166-212), for request r in a session that holds object p; criar
\* is what authenticate_google and events().insert do: the event is returned
\* ("ok"), criar_evento catches HttpError and returns None, or one of the
\* two raises something else.  All but the first end in the same HTTP 500.
criar_agendamento(w, r, p, criar) ==
    LET found == SelectPaciente(r.sender)
        paciente == IF p.id # 0 /\ p.id = found.id THEN p ELSE found
    IN
    IF ~PacienteEncontrado(paciente)
    THEN /\ FalharAgendamento(w, r, paciente, 404, "NotFound", "nenhuma")
         /\ UNCHANGED << pacientes, agendamentos, eventos, criados, deletes, ev >>
    ELSE IF ~StrptimeOk(r.texto)
    THEN /\ FalharAgendamento(w, r, paciente, 400, "InvalidInput", "nenhuma")
         /\ UNCHANGED << pacientes, agendamentos, eventos, criados, deletes, ev >>
    ELSE IF criar # "ok"
    THEN /\ FalharAgendamento(w, r, paciente, 500, "CalendarError", "nenhuma")
         /\ UNCHANGED << pacientes, agendamentos, eventos, criados, deletes, ev >>
    ELSE LET dt == Strptime(r.texto)
             evento_google == [id |-> NovoEventoId(criados), data |-> dt.data,
                               inicio |-> dt.inicio,
                               fim |-> dt.inicio + DuracaoConsulta]
         IN  /\ criados < MaxEventos
             /\ eventos' = eventos \cup {evento_google}
             /\ criados' = criados + 1
             /\ ev' = [ev EXCEPT ![w] = evento_google]
             /\ pac' = [pac EXCEPT ![w] = paciente]
             /\ req' = [req EXCEPT ![w] = r]
             /\ pc' = [pc EXCEPT ![w] = "salvar"]
             /\ UNCHANGED << pacientes, agendamentos, deletes, resp >>

\* A request to POST /agendamentos arrives and runs to the calendar's insert.
AgendamentoInicio(w, E) ==
    /\ pc[w] = "idle"
    /\ \E sender \in E.destinatarios, data \in E.datas, hora \in E.horas :
        LET r == [rota |-> "agendamentos", sender |-> sender,
                  texto |-> DataHoraStr(Isoformat(data), hora)]
        IN  \E criar \in Resultados :
                criar_agendamento(w, r, NoPaciente, criar)

\* The local save (main.py:214-225) and, called by the slot-choice tool, the
\* reset of the conversation that follows it (main.py:319-329).
AgendamentoSalvar(w) ==
    /\ pc[w] = "salvar"
    /\ \E commit \in BOOLEAN :
        LET novo_agendamento ==
                [id |-> Cardinality(agendamentos) + 1, paciente_id |-> pac[w].id,
                 data |-> ev[w].data, inicio |-> ev[w].inicio, fim |-> ev[w].fim,
                 id_evento_google |-> ev[w].id]
            obj == [pac[w] EXCEPT !.estado_conversa = SemEstado,
                                  !.dados_agendamento = << >>]
        IN  /\ agendamentos' = IF commit THEN agendamentos \cup {novo_agendamento}
                               ELSE agendamentos
            /\ IF Compensa(commit)
               THEN /\ pc' = [pc EXCEPT ![w] = "compensar"]
                    /\ UNCHANGED << pacientes, req, pac, resp >>
               ELSE IF req[w].rota = "agendamentos"
               THEN /\ Responder(w, req[w], pac[w], Resp(200, "sucesso", "criar_agendamento"))
                    /\ UNCHANGED pacientes
               ELSE \E atribuicao \in {"raises", "sets"}, reset \in BOOLEAN :
                    IF atribuicao = "sets" /\ reset
                    THEN /\ pacientes' = UpdatePaciente(obj)
                         /\ Responder(w, req[w], pac[w],
                                      Resp(200, "confirmado", "processar_horario"))
                    ELSE /\ Responder(w, req[w], pac[w],
                                [Resp(500, "erro_interno", "processar_horario")
                                    EXCEPT !.falha = IF atribuicao = "sets"
                                                     THEN "commit" ELSE "nenhuma"])
                         /\ UNCHANGED pacientes
            /\ UNCHANGED << eventos, criados, deletes, ev >>

\* The compensation (main.py:227-240): rollback, one events().delete for the
\* event just created, whose failure is printed, and the save's error raised.
AgendamentoCompensar(w) ==
    /\ pc[w] = "compensar"
    /\ IF DeveRemover(ev[w])
       THEN \E remover \in Resultados :
            /\ deletes' = Append(deletes, [evento |-> ev[w].id, ok |-> remover = "ok"])
            /\ eventos' = IF remover = "ok" THEN eventos \ {ev[w]} ELSE eventos
            /\ FalharAgendamento(w, req[w], pac[w], 500, "PersistenceError",
                                 IF remover = "ok" THEN "ok" ELSE "falhou")
       ELSE /\ FalharAgendamento(w, req[w], pac[w], 500, "PersistenceError", "nenhuma")
            /\ UNCHANGED << deletes, eventos >>
    /\ UNCHANGED << pacientes, agendamentos, criados, ev >>

\* ------------------------------------------------------------ POST /agente

\* Faulty variant of the constraint below: the column has no unique index.
UnicoSempre(sender) == TRUE

\* sender_id: Field(unique=True) (main.py:15): the INSERT is refused when a
\* row already holds the sender id.
Unico(sender) == \A p \in pacientes : p.sender_id # sender

\* Faulty variant of the dispatch below: the loaded state is ignored and the
\* intent always decides.
FerramentaPelaIntencao(estado_conversa) == "classificar"

\* The router's dispatch on the loaded state (main.py:391-396).
Ferramenta(estado_conversa) ==
    IF estado_conversa = AguardandoData THEN "processar_data"
    ELSE IF estado_conversa = AguardandoHorario THEN "processar_horario"
    ELSE "classificar"

\* `except Exception` of agente_router (main.py:426-431): rollback, HTTP 500.
\* falha names the collaborator that raised, "nenhuma" when the exception is
\* the handler's own.
ErroInterno(ferramenta, falha) ==
    [Resp(500, "erro_interno", ferramenta) EXCEPT !.falha = falha]

\* str(e) of the exception a turn ended with, one text per origin: the
\* calendar (among them authenticate_google's own message,
\* google_calendar.py:24), the commit, the unique index, or the tool itself.
StrDaExcecao(falha) ==
    CASE falha = "calendario" -> "str(erro do calendario)"
      [] falha = "commit" -> "str(erro do commit)"
      [] falha = "conflito" -> "str(erro de unicidade)"
      [] OTHER -> "str(erro da ferramenta)"

\* The text of a response of POST /agente, as a sequence of its parts: the
\* detail of the router's HTTP 500 holds str(e) (main.py:426-431), the reply
\* to a failed booking holds the detail of its HTTPException
\* (main.py:331-335), and every other reply is the fixed text of its tool.
TextoDaResposta(resposta) ==
    IF resposta.tag = "erro_interno"
    THEN << "Erro ao processar a requisicao: ", StrDaExcecao(resposta.falha) >>
    ELSE IF resposta.tag \in {"NotFound", "InvalidInput", "CalendarError", "PersistenceError"}
    THEN << "Desculpe, houve um erro ao agendar sua consulta: ", resposta.tag >>
    ELSE << resposta.tag >>

\* Faulty variant of the test below: an empty list of slots is offered too.
TemHorariosSempre(horarios) == TRUE

\* `if horarios:` (main.py:279)
TemHorarios(horarios) == horarios # << >>

\* A reply of the agent that leaves the store and the calendar as they are.
Resposta(w, resposta) ==
    /\ Responder(w, req[w], pac[w], resposta)
    /\ UNCHANGED << pacientes, agendamentos, eventos, criados, deletes, ev >>

\* A message arrives: the sender id is cleaned and the patient looked up
\* (main.py:366-371).
AgenteInicio(w, E) ==
    /\ pc[w] = "idle"
    /\ \E senderId \in E.senders, messageText \in E.textos :
        /\ req' = [req EXCEPT ![w] = [rota |-> "agente",
                                      sender |-> SenderIdLimpo(senderId),
                                      texto |-> messageText]]
        /\ pac' = [pac EXCEPT ![w] = SelectPaciente(SenderIdLimpo(senderId))]
    /\ pc' = [pc EXCEPT ![w] = "agente"]
    /\ UNCHANGED << pacientes, agendamentos, eventos, criados, deletes, ev, resp >>

\* Faulty variant of the new row below: the first message already opens the
\* booking flow.
NovoPacienteAgendando(sender) ==
    [id |-> Cardinality(pacientes) + 1, sender_id |-> sender,
     estado_conversa |-> AguardandoData]

\* Paciente(sender_id=..., estado_conversa=None) as the INSERT stores it
\* (main.py:375-382).
NovoPaciente(sender) ==
    [id |-> Cardinality(pacientes) + 1, sender_id |-> sender,
     estado_conversa |-> SemEstado]

\* No patient was found: one is created and welcomed (main.py:373-388).
AgenteNovo(w) ==
    /\ pc[w] = "agente"
    /\ pac[w].id = 0
    /\ \E commit \in BOOLEAN :
        IF commit /\ Unico(req[w].sender)
        THEN /\ pacientes' = pacientes \cup {NovoPaciente(req[w].sender)}
             /\ Responder(w, req[w], pac[w], Resp(200, "boas_vindas", "novo"))
             /\ UNCHANGED << agendamentos, eventos, criados, deletes, ev >>
        ELSE Resposta(w, ErroInterno("novo", IF commit THEN "conflito" ELSE "commit"))

\* ferramenta_processar_data (main.py:273-300).  data_desejada = 0 is None;
\* atribuicao is what the assignment to dados_agendamento does.
AgenteProcessarData(w, E) ==
    /\ pc[w] = "agente"
    /\ pac[w].id # 0
    /\ Ferramenta(pac[w].estado_conversa) = "processar_data"
    /\ \E data_desejada \in E.datas \cup {0} :
        IF data_desejada = 0
        THEN Resposta(w, Resp(200, "reformular", "processar_data"))
        ELSE \E auth \in BOOLEAN, listagem \in Resultados, outros \in E.outros :
             LET h == get_horarios_disponiveis(data_desejada, auth, listagem, outros)
                 obj == [pac[w] EXCEPT !.estado_conversa = AguardandoHorario,
                                       !.dados_agendamento =
                                           << "data", Isoformat(data_desejada) >>]
             IN  IF h.raised
                 THEN Resposta(w, [ErroInterno("processar_data", "calendario")
                                      EXCEPT !.data = data_desejada])
                 ELSE IF ~TemHorarios(h.horarios)
                 THEN Resposta(w, [Resp(200, "sem_horarios", "processar_data")
                                      EXCEPT !.data = data_desejada,
                                             !.horarios = h.horarios])
                 ELSE \E atribuicao \in {"raises", "sets"}, commit \in BOOLEAN :
                      IF atribuicao = "sets" /\ commit
                      THEN /\ pacientes' = UpdatePaciente(obj)
                           /\ Responder(w, req[w], pac[w],
                                [Resp(200, "horarios", "processar_data")
                                   EXCEPT !.data = data_desejada,
                                          !.horarios = h.horarios])
                           /\ UNCHANGED << agendamentos, eventos, criados, deletes, ev >>
                      ELSE Resposta(w,
                                [ErroInterno("processar_data",
                                             IF atribuicao = "sets" THEN "commit"
                                             ELSE "nenhuma")
                                   EXCEPT !.data = data_desejada,
                                          !.horarios = h.horarios])

\* ferramenta_processar_horario up to the call of criar_agendamento
\* (main.py:302-317): reading an attribute the object lacks raises
\* AttributeError, which only the router catches.
AgenteProcessarHorario(w) ==
    /\ pc[w] = "agente"
    /\ pac[w].id # 0
    /\ Ferramenta(pac[w].estado_conversa) = "processar_horario"
    /\ IF pac[w].dados_agendamento = SemAtributo
       THEN Resposta(w, ErroInterno("processar_horario", "nenhuma"))
       ELSE \E criar \in Resultados :
               criar_agendamento(w,
                   [req[w] EXCEPT !.texto =
                       DataHoraStr(IF pac[w].dados_agendamento = << >> THEN "None"
                                   ELSE pac[w].dados_agendamento[2],
                                   req[w].texto)],
                   pac[w], criar)

\* No conversation in progress: the intent decides the tool (main.py:396-411).
AgenteClassificar(w) ==
    /\ pc[w] = "agente"
    /\ pac[w].id # 0
    /\ Ferramenta(pac[w].estado_conversa) = "classificar"
    /\ LET intent_analysis == classify_intent(req[w].texto) IN
       IF intent_analysis.intent = "SCHEDULE_APPOINTMENT"
       THEN IF pac[w].estado_conversa \in {SemEstado, "inicio"}
            THEN \E commit \in BOOLEAN :
                    IF commit
                    THEN /\ pacientes' = UpdatePaciente(
                                [pac[w] EXCEPT !.estado_conversa = AguardandoData])
                         /\ Responder(w, req[w], pac[w],
                                      Resp(200, "pedir_data", "agendar_consulta"))
                         /\ UNCHANGED << agendamentos, eventos, criados, deletes, ev >>
                    ELSE Resposta(w, ErroInterno("agendar_consulta", "commit"))
            ELSE Resposta(w, Resp(200, "padrao", "padrao"))
       ELSE IF intent_analysis.intent = "REQUEST_PRICE"
       THEN Resposta(w, Resp(200, "preco", "consulta_preco"))
       ELSE IF intent_analysis.intent = "GREETING"
       THEN Resposta(w, Resp(200, "saudacao", "saudacao"))
       ELSE Resposta(w, Resp(200, "padrao", "padrao"))

\* ------------------------------------------------------------ specification

\* The inputs of the full system.  Raw sender ids: "a", "a@c" (the same
\* sender with the channel suffix), "b".  Texts: "Oi", "marcar", "valor",
\* "10:00".  Times of a booking request: "10:00", "25:00".  The events on the
\* calendar that this program did not create, as the busy intervals of a
\* day: none, or the whole business day.
Entradas ==
    [senders |-> { <<"a">>, <<"a", "@", "c">>, <<"b">> },
     textos |-> { <<"O", "i">>,
                  <<"m", "a", "r", "c", "a", "r">>,
                  <<"v", "a", "l", "o", "r">>,
                  <<"1", "0", ":", "0", "0">> },
     destinatarios |-> { <<"a">>, <<"a", "@", "c">>, <<"b">> },
     datas |-> Datas,
     horas |-> { <<"1", "0", ":", "0", "0">>, <<"2", "5", ":", "0", "0">> },
     outros |-> { << >>, << [inicio |-> 540, fim |-> 1080] >> }]

\* The requests are served one at a time, by the first worker.
Next ==
    \E w \in {"w1"} :
        \/ AgenteInicio(w, Entradas)
        \/ AgenteNovo(w)
        \/ AgenteProcessarData(w, Entradas)
        \/ AgenteProcessarHorario(w)
        \/ AgenteClassificar(w)
        \/ AgendamentoInicio(w, Entradas)
        \/ AgendamentoSalvar(w)
        \/ AgendamentoCompensar(w)
        \/ Fechar(w)

Spec == Init /\ [][Next]_vars

\* ------------------------------------------------------------ concurrent requests

\* Each request has a session of its own (get_session) and the handlers
\* share nothing but the store and the calendar, so requests served by
\* different server processes interleave at their reads, commits and
\* calendar calls.  The inputs are fewer: the sender "a" under both of its
\* raw ids and the sender "b", one text (a scheduling request), one day, one
\* time, and no foreign events on the calendar.
EntradasConc ==
    [senders |-> { <<"a">>, <<"a", "@", "c">>, <<"b">> },
     textos |-> { <<"m", "a", "r", "c", "a", "r">> },
     destinatarios |-> { <<"a">> },
     datas |-> {1},
     horas |-> { <<"1", "0", ":", "0", "0">> },
     outros |-> { << >> }]

\* Any worker takes the next step of its request.
NextConc ==
    \E w \in Workers :
        \/ AgenteInicio(w, EntradasConc)
        \/ AgenteNovo(w)
        \/ AgenteProcessarData(w, EntradasConc)
        \/ AgenteProcessarHorario(w)
        \/ AgenteClassificar(w)
        \/ AgendamentoInicio(w, EntradasConc)
        \/ AgendamentoSalvar(w)
        \/ AgendamentoCompensar(w)
        \/ Fechar(w)

SpecConc == Init /\ [][NextConc]_vars

\* ------------------------------------------------------------ GET /horarios_disponiveis

\* Whether strptime(data, '%Y-%m-%d') accepts the text: it is a date atom.
DataValida(data) == \E d \in Datas : Isoformat(d) = data

\* ver_horarios (main.py:142-155): the text is parsed (400 when it is no
\* date), the free slots of the day are computed and returned; any other
\* exception is answered 500.  falha tells a listing that raised HttpError,
\* whose answer is the empty list, from a listing that returned.
VerHorarios(w, E) ==
    /\ pc[w] = "idle"
    /\ \E data \in E.consultas, auth \in BOOLEAN, listagem \in Resultados,
          outros \in E.outros :
        LET r == [rota |-> "horarios_disponiveis", sender |-> << >>,
                  texto |-> << data >>]
        IN  IF ~DataValida(data)
            THEN Responder(w, r, NoPaciente, Resp(400, "InvalidInput", "ver_horarios"))
            ELSE LET data_formatada == CHOOSE d \in Datas : Isoformat(d) = data
                     h == get_horarios_disponiveis(data_formatada, auth, listagem, outros)
                 IN  IF h.raised
                     THEN Responder(w, r, NoPaciente,
                              [Resp(500, "erro_interno", "ver_horarios")
                                  EXCEPT !.data = data_formatada,
                                         !.falha = "calendario"])
                     ELSE Responder(w, r, NoPaciente,
                              [Resp(200, "horarios_disponiveis", "ver_horarios")
                                  EXCEPT !.data = data_formatada,
                                         !.horarios = h.horarios,
                                         !.falha = IF listagem = "HttpError"
                                                   THEN "HttpError" ELSE "nenhuma"])
    /\ UNCHANGED << pacientes, agendamentos, eventos, criados, deletes, ev >>

\* The instants, in minutes after midnight, at which the events of the
\* calendars below start and end: before, at and after the opening, on the
\* hour and on the half hour, at and after the closing.
Instantes == {480, 540, 600, 630, 660, 720, 780, 1080, 1110}

Intervalos == {i \in Instantes \X Instantes : i[1] < i[2]}

RECURSIVE ConjuntosAte(_)
\* The sets of at most n intervals.
ConjuntosAte(n) ==
    IF n = 0 THEN { {} }
    ELSE LET menores == ConjuntosAte(n - 1)
         IN  menores \cup {S \cup {i} : S \in menores, i \in Intervalos}

\* The place of interval i in the set S, by start and then by end: the id
\* of its event.
Posicao(i, S) ==
    1 + Cardinality({j \in S : (j[1] < i[1]) \/ (j[1] = i[1] /\ j[2] < i[2])})

\* The calendars the slot computation is run on: up to MaxOcupados events,
\* all on the first day, with any starts and ends.
Calendarios ==
    {{[id |-> Posicao(i, S), data |-> 1, inicio |-> i[1], fim |-> i[2]] : i \in S}
        : S \in ConjuntosAte(MaxOcupados)}

\* The store is empty and the calendar holds one of the calendars above.
InitHorarios ==
    /\ pacientes = {}
    /\ agendamentos = {}
    /\ eventos \in Calendarios
    /\ criados = Cardinality(eventos)
    /\ deletes = << >>
    /\ pc = [w \in Workers |-> "idle"]
    /\ req = [w \in Workers |-> ReqVazio]
    /\ pac = [w \in Workers |-> NoPaciente]
    /\ ev = [w \in Workers |-> NoEvento]
    /\ resp = [w \in Workers |-> RespVazia]

\* The days asked for: both days and a text that is no date.
EntradasHorarios ==
    [consultas |-> {Isoformat(d) : d \in Datas} \cup {"16/06/2025"},
     outros |-> { << >> }]

NextHorarios ==
    \E w \in {"w1"} :
        \/ VerHorarios(w, EntradasHorarios)
        \/ Fechar(w)

SpecHorarios == InitHorarios /\ [][NextHorarios]_vars

\* ------------------------------------------------------------ the classifier's texts

\* The texts the classifier is run on: the empty text, "Oi", "oi valor",
\* "valor marcar", "oi marcar", "xyz", "PRECO" with a cedilla, "noite"
\* (which holds "oi"), and "10:00".
TextosClassificar ==
    { << >>,
      <<"O", "i">>,
      <<"o", "i", " ", "v", "a", "l", "o", "r">>,
      <<"v", "a", "l", "o", "r", " ", "m", "a", "r", "c", "a", "r">>,
      <<"o", "i", " ", "m", "a", "r", "c", "a", "r">>,
      <<"x", "y", "z">>,
      <<"P", "R", "E", "Ccedil", "O">>,
      <<"n", "o", "i", "t", "e">>,
      <<"1", "0", ":", "0", "0">> }

EntradasClassificar ==
    [senders |-> { <<"a">>, <<"b">> },
     textos |-> TextosClassificar,
     datas |-> {1},
     outros |-> { << >> }]

\* The sender "a" is a patient with no conversation in progress, and a
\* message of theirs, with one of the texts above, has just been received.
InitClassificar ==
    /\ pacientes = {[id |-> 1, sender_id |-> <<"a">>, estado_conversa |-> SemEstado]}
    /\ agendamentos = {}
    /\ eventos = {}
    /\ criados = 0
    /\ deletes = << >>
    /\ pc = [w \in Workers |-> IF w = "w1" THEN "agente" ELSE "idle"]
    /\ \E messageText \in TextosClassificar :
          req = [w \in Workers |->
                    IF w = "w1"
                    THEN [rota |-> "agente", sender |-> <<"a">>, texto |-> messageText]
                    ELSE ReqVazio]
    /\ pac = [w \in Workers |->
                 IF w = "w1"
                 THEN [id |-> 1, sender_id |-> <<"a">>, estado_conversa |-> SemEstado,
                       dados_agendamento |-> SemAtributo]
                 ELSE NoPaciente]
    /\ ev = [w \in Workers |-> NoEvento]
    /\ resp = [w \in Workers |-> RespVazia]

\* The turns of the agent, one at a time, on these texts.
NextClassificar ==
    \E w \in {"w1"} :
        \/ AgenteInicio(w, EntradasClassificar)
        \/ AgenteNovo(w)
        \/ AgenteProcessarData(w, EntradasClassificar)
        \/ AgenteProcessarHorario(w)
        \/ AgenteClassificar(w)
        \/ Fechar(w)

SpecClassificar == InitClassificar /\ [][NextClassificar]_vars

\* ------------------------------------------------------------ booking claims

\* The events().delete calls issued for event id e.
Remocoes(e) == {i \in 1..Len(deletes) : deletes[i].evento = e}

\* A row of agendamento refers to event id e.
TemRegistro(e) == \E a \in agendamentos : a.id_evento_google = e

\* A booking call, of either origin, is still running with event id e.
EmCurso(e) == \E w \in Workers : pc[w] \in {"salvar", "compensar"} /\ ev[w].id = e

\* Worker w's booking call has returned after its local save failed: it
\* created an event and wrote no row for it.
SalvarFalhou(w) ==
    /\ pc[w] = "respondido"
    /\ ev[w].id # 0
    /\ ~TemRegistro(ev[w].id)

\* C1: when the local save fails after the event was created, the booking
\* issues exactly one delete call, for the id of that event, whether the
\* delete succeeds or fails, and ends in failure; no event is ever the
\* subject of a second delete call, and none is issued before the save
\* failed or for an event whose row was saved.
C1_UmaRemocao ==
    /\ \A w \in Workers :
        /\ SalvarFalhou(w) =>
              /\ Cardinality(Remocoes(ev[w].id)) = 1
              /\ resp[w].remocao \in {"ok", "falhou"}
              /\ resp[w].tag = "PersistenceError"
              /\ req[w].rota = "agendamentos" => resp[w].status = 500
        /\ pc[w] \in {"salvar", "compensar"} => Remocoes(ev[w].id) = {}
    /\ \A e \in 1..criados :
        /\ Cardinality(Remocoes(e)) <= 1
        /\ TemRegistro(e) => Remocoes(e) = {}
    /\ \A i \in 1..Len(deletes) : deletes[i].evento \in 1..criados

\* C1's case: a booking has returned after a failed save and a failed delete.
C1_Witness ==
    \E w \in Workers : SalvarFalhou(w) /\ resp[w].remocao = "falhou"

\* C2 as claimed: when the save fails and the compensating delete fails too,
\* the error surfaced is CompensationFailed and not the save's own error.
C2_CompensationFailed ==
    \A w \in Workers :
        (SalvarFalhou(w) /\ resp[w].remocao = "falhou") =>
            /\ resp[w].tag = "CompensationFailed"
            /\ resp[w].tag # "PersistenceError"

\* C3: every row of agendamento carries the id of an event that this program
\* created and that is still on the calendar.
C3_RegistroTemEvento ==
    \A a \in agendamentos :
        /\ a.id_evento_google \in 1..criados
        /\ \E e \in eventos : e.id = a.id_evento_google

\* C3's case: a row exists while another event has been deleted.
C3_Witness ==
    /\ agendamentos # {}
    /\ \E i \in 1..Len(deletes) : deletes[i].ok

\* C4 as claimed: once the booking call that created it has returned, every
\* event still on the calendar has a row of agendamento.
C4_EventoTemRegistro ==
    \A e \in eventos : ~EmCurso(e.id) => TemRegistro(e.id)

\* C4 amended: once the booking call that created it has returned, every
\* event still on the calendar has a row of agendamento, unless the call's
\* compensating delete of that event was issued and failed.
C4_EventoTemRegistroOuRemocaoFalhou ==
    \A e \in eventos :
        ~EmCurso(e.id) =>
            \/ TemRegistro(e.id)
            \/ \E i \in Remocoes(e.id) : ~deletes[i].ok

\* C4's case: an event without a row survives a returned booking call.
C4_Witness ==
    \E e \in eventos : ~EmCurso(e.id) /\ ~TemRegistro(e.id)

\* C5: a booking call that fails before the local save (the patient is not
\* found, or the event is not created) changes no row and no event and
\* issues no delete call; and a call for a sender without a patient row
\* fails so.
C5_FalhaSemEfeito ==
    [][\A w \in Workers :
        (pc[w] = "idle" /\ pc'[w] # "idle" /\ req'[w].rota = "agendamentos") =>
            /\ SelectPaciente(req'[w].sender).id = 0 =>
                  /\ pc'[w] = "respondido"
                  /\ resp'[w].tag = "NotFound"
            /\ (pc'[w] = "respondido" /\ resp'[w].tag \in {"NotFound", "CalendarError"}) =>
                  /\ UNCHANGED << pacientes, agendamentos, eventos, criados, deletes >>
                  /\ ev'[w] = NoEvento
                  /\ resp'[w].status \in {404, 500}]_vars

\* C5's case: a booking call has failed at the event's creation while rows
\* and events exist.
C5_Witness ==
    /\ agendamentos # {}
    /\ \E w \in Workers :
        /\ pc[w] = "respondido"
        /\ req[w].rota = "agendamentos"
        /\ resp[w].tag = "CalendarError"

\* ------------------------------------------------------------ conversation claims

\* Worker w's step is the end of a turn of the agent for a known patient:
\* the router, holding the loaded object pac[w], dispatches and the tool runs.
Turno(w) ==
    /\ pc[w] = "agente"
    /\ pc'[w] # "agente"
    /\ pac[w].id # 0

\* Worker w has answered a turn of the agent for a known patient whose
\* loaded state was estado.
Respondeu(w, estado) ==
    /\ pc[w] = "respondido"
    /\ req[w].rota = "agente"
    /\ pac[w].id # 0
    /\ pac[w].estado_conversa = estado

\* The row of the patient of worker w's request, as a new session loads it.
Recarregado(w) == SelectPaciente(req[w].sender)

\* The answers that only the intent's tools give.
RespostasDaIntencao == {"pedir_data", "preco", "saudacao", "padrao"}

\* C6: when the state loaded at the start of a turn is not None, the turn is
\* handled by that state's tool whatever the classifier says of the text,
\* and the answer is none of the intent's (a patient choosing a slot who
\* writes a price keyword gets no price answer); when the state is None the
\* classifier's intent decides the tool.
C6_EstadoAntesDaIntencao ==
    [][\A w \in Workers :
        Turno(w) =>
            /\ pac[w].estado_conversa = AguardandoData =>
                  /\ pc'[w] = "respondido"
                  /\ resp'[w].ferramenta = "processar_data"
                  /\ resp'[w].tag \notin RespostasDaIntencao
            /\ pac[w].estado_conversa = AguardandoHorario =>
                  /\ pc'[w] \in {"respondido", "salvar"}
                  /\ pc'[w] = "respondido" =>
                        /\ resp'[w].ferramenta = "processar_horario"
                        /\ resp'[w].tag \notin RespostasDaIntencao
            /\ pac[w].estado_conversa = SemEstado =>
                  /\ pc'[w] = "respondido"
                  /\ resp'[w].ferramenta =
                        CASE classify_intent(req[w].texto).intent = "SCHEDULE_APPOINTMENT"
                                -> "agendar_consulta"
                          [] classify_intent(req[w].texto).intent = "REQUEST_PRICE"
                                -> "consulta_preco"
                          [] classify_intent(req[w].texto).intent = "GREETING"
                                -> "saudacao"
                          [] OTHER -> "padrao"]_vars

\* C6's case: a patient choosing a slot wrote a price keyword and the
\* slot-choice tool answered.
C6_Witness ==
    \E w \in Workers :
        /\ Respondeu(w, AguardandoHorario)
        /\ classify_intent(req[w].texto).intent = "REQUEST_PRICE"
        /\ resp[w].ferramenta = "processar_horario"

\* C7 as claimed: when a patient awaiting a date sends a text that resolves
\* to a date with at least one free slot, and neither the calendar nor the
\* store fails, the turn ends with the row's state awaiting the slot choice
\* and with the date stored where the next request, reloading the patient,
\* reads it.
C7_DataGuardada ==
    \A w \in Workers :
        (/\ Respondeu(w, AguardandoData)
         /\ resp[w].data # 0
         /\ TemHorarios(resp[w].horarios)
         /\ resp[w].falha = "nenhuma") =>
            /\ Recarregado(w).estado_conversa = AguardandoHorario
            /\ Recarregado(w).dados_agendamento = << "data", Isoformat(resp[w].data) >>

\* C8: when a patient awaiting a date sends a text that resolves to no date,
\* or to a date for which no free slot is listed, the answer asks to
\* rephrase, respectively to try another date, and the turn changes no
\* row, no event and no stored context: the patient still awaits a date.
C8_DataRecusada ==
    [][\A w \in Workers :
        (Turno(w) /\ pac[w].estado_conversa = AguardandoData /\ pc'[w] = "respondido") =>
            /\ resp'[w].data = 0 =>
                  /\ resp'[w].tag = "reformular"
                  /\ resp'[w].status = 200
            /\ (resp'[w].data # 0 /\ resp'[w].horarios = << >>
                    /\ resp'[w].falha = "nenhuma") =>
                  /\ resp'[w].tag = "sem_horarios"
                  /\ resp'[w].status = 200
            /\ resp'[w].tag \in {"reformular", "sem_horarios"} =>
                  /\ UNCHANGED << pacientes, agendamentos, eventos, criados, deletes >>
                  /\ SelectPaciente(req[w].sender).estado_conversa = AguardandoData
                  /\ SelectPaciente(req[w].sender).dados_agendamento = SemAtributo
                  /\ resp'[w].data = 0 \/ resp'[w].horarios = << >>]_vars

\* C8's case: a date was resolved, no slot was free, and the patient, asked
\* for another date, still awaits one.
C8_Witness ==
    \E w \in Workers :
        /\ Respondeu(w, AguardandoData)
        /\ resp[w].tag = "sem_horarios"
        /\ resp[w].data # 0
        /\ Recarregado(w).estado_conversa = AguardandoData

\* C9 as claimed: when a patient choosing a slot sends a time of day and
\* nothing the booking calls fails, the turn confirms the booking: one more
\* event and one row for it, and the row's state back to None.
C9_HorarioConfirmado ==
    \A w \in Workers :
        (/\ Respondeu(w, AguardandoHorario)
         /\ HMValida(req[w].texto)
         /\ resp[w].falha = "nenhuma") =>
            /\ resp[w].tag = "confirmado"
            /\ ev[w].id # 0
            /\ TemRegistro(ev[w].id)
            /\ Recarregado(w).estado_conversa = SemEstado

\* C10 as claimed: when a patient choosing a slot sends a message and the
\* booking is not confirmed, the row's state still awaits the slot choice and
\* the date chosen before is still stored for the next request.
C10_ContextoMantido ==
    \A w \in Workers :
        (Respondeu(w, AguardandoHorario) /\ resp[w].tag # "confirmado") =>
            /\ Recarregado(w).estado_conversa = AguardandoHorario
            /\ \E d \in Datas :
                  Recarregado(w).dados_agendamento = << "data", Isoformat(d) >>

\* ------------------------------------------------------------ turn claims

\* Worker w takes this step.
Passo(w) == pc[w] # pc'[w]

MesmaReserva(a, b) ==
    /\ a.paciente_id = b.paciente_id
    /\ a.data = b.data
    /\ a.inicio = b.inicio

\* C12: booking is not idempotent.  Every booking call that answers with
\* success has added one row of agendamento, for an event that no earlier
\* row refers to and that is on the calendar, also when a row for the same
\* patient and start time was there already: the second call is neither
\* refused nor merged with the first.
C12_ReservaNaoIdempotente ==
    [][\A w \in Workers :
        (pc[w] = "salvar" /\ pc'[w] = "respondido" /\ resp'[w].tag = "sucesso") =>
            /\ Cardinality(agendamentos') = Cardinality(agendamentos) + 1
            /\ \A a \in agendamentos : a.id_evento_google # ev[w].id
            /\ \E a \in agendamentos' \ agendamentos :
                  /\ a.id_evento_google = ev[w].id
                  /\ a.paciente_id = pac[w].id
                  /\ a.data = ev[w].data
                  /\ a.inicio = ev[w].inicio
            /\ \E e \in eventos' : e.id = ev[w].id]_vars

\* C12's case: two rows for the same patient and start time, each with its
\* own event, both events on the calendar.
C12_Witness ==
    \E a, b \in agendamentos :
        /\ a # b
        /\ MesmaReserva(a, b)
        /\ a.id_evento_google # b.id_evento_google
        /\ \E e, f \in eventos :
              /\ e.id = a.id_evento_google
              /\ f.id = b.id_evento_google
              /\ e # f

\* C13 as claimed: in every state, over all patients, at most one row of
\* agendamento (all are written with status confirmado) exists for a given
\* day and start time.
C13_UmaReservaPorHorario ==
    \A a, b \in agendamentos :
        (a.data = b.data /\ a.inicio = b.inicio) => a = b

\* ------------------------------------------------------------ concurrency claims

\* Two requests of one sender are both answered as slot choices from the
\* same stored state.
DuasEscolhas(v, w) ==
    /\ v # w
    /\ Respondeu(v, AguardandoHorario)
    /\ Respondeu(w, AguardandoHorario)
    /\ req[v].sender = req[w].sender

ChaveDe(bruto, chave) ==
    /\ \A i \in 1..Len(chave) : chave[i] # "@"
    /\ Len(chave) <= Len(bruto)
    /\ SubSeq(bruto, 1, Len(chave)) = chave
    /\ Len(chave) < Len(bruto) => bruto[Len(chave) + 1] = "@"

\* C15: in every state at most one patient row exists per sender key, the
\* key being the raw sender id up to its first "@", so that "a@c" and "a"
\* are one patient; when two first messages of one sender are handled at the
\* same time, the second insert fails with a conflict and adds no row.
C15_ChaveUnica ==
    /\ \A p, q \in pacientes : p.sender_id = q.sender_id => p = q
    /\ \A p \in pacientes : \E s \in EntradasConc.senders : ChaveDe(s, p.sender_id)
    /\ \A s \in EntradasConc.senders : ChaveDe(s, SenderIdLimpo(s))
    /\ \A w \in Workers :
        (req[w].rota = "agente" /\ pc[w] = "respondido" /\ pac[w].id = 0) =>
            /\ Cardinality({p \in pacientes : p.sender_id = req[w].sender}) <= 1
            /\ resp[w].tag = "boas_vindas" =>
                  Cardinality({p \in pacientes : p.sender_id = req[w].sender}) = 1
            /\ resp[w].falha = "conflito" =>
                  /\ resp[w].tag = "erro_interno"
                  /\ Cardinality({p \in pacientes : p.sender_id = req[w].sender}) = 1

\* C15's case: two first messages of one sender were handled at the same
\* time; one was welcomed, the other met the conflict, and one row exists.
C15_Witness ==
    \E v, w \in Workers :
        /\ v # w
        /\ req[v].rota = "agente" /\ req[w].rota = "agente"
        /\ req[v].sender = req[w].sender
        /\ pc[v] = "respondido" /\ resp[v].tag = "boas_vindas"
        /\ pc[w] = "respondido" /\ resp[w].falha = "conflito"
        /\ Cardinality({p \in pacientes : p.sender_id = req[w].sender}) = 1

\* ------------------------------------------------------------ conversation cycle

\* C16: the first message of a sender without a row, whatever its text, is
\* answered with the welcome and adds exactly one patient, in state None;
\* it is never answered with the date prompt, and the turn touches neither
\* the appointments nor the calendar.  (When the insert itself fails the
\* turn ends in the router's error and adds nothing.)
C16_PrimeiraMensagem ==
    [][\A w \in Workers :
        (Passo(w) /\ pc[w] = "agente" /\ pac[w].id = 0) =>
            /\ pc'[w] = "respondido"
            /\ resp'[w].ferramenta = "novo"
            /\ resp'[w].tag \in {"boas_vindas", "erro_interno"}
            /\ UNCHANGED << agendamentos, eventos, criados, deletes >>
            /\ resp'[w].falha = "nenhuma" =>
                  /\ resp'[w].tag = "boas_vindas"
                  /\ resp'[w].status = 200
                  /\ Cardinality(pacientes') = Cardinality(pacientes) + 1
                  /\ \E p \in pacientes' \ pacientes :
                        /\ p.sender_id = req[w].sender
                        /\ p.estado_conversa = SemEstado
            /\ resp'[w].falha # "nenhuma" => UNCHANGED pacientes]_vars

\* C16's case: a first message that asks for an appointment was welcomed
\* and its sender's row is in state None.
C16_Witness ==
    \E w \in Workers :
        /\ pc[w] = "respondido"
        /\ req[w].rota = "agente"
        /\ pac[w].id = 0
        /\ classify_intent(req[w].texto).intent = "SCHEDULE_APPOINTMENT"
        /\ resp[w].tag = "boas_vindas"
        /\ Recarregado(w).estado_conversa = SemEstado
        /\ Recarregado(w).id # 0

\* The stored conversation states.
Estados == {SemEstado, AguardandoData, AguardandoHorario}

\* The row of pacientes with id i after the step.
Depois(i) == CHOOSE q \in pacientes' : q.id = i

\* C17: a stored conversation state is always None, awaiting a date or
\* awaiting a slot choice; a new row starts in None; and a step changes a
\* row's state only from None to awaiting a date, and then the message
\* handled holds a scheduling keyword, from awaiting a date to awaiting a
\* slot choice, or from awaiting a slot choice to None.  Price, greeting
\* and other texts leave None as it is.
C17_CicloDeEstados ==
    [][/\ \A p \in pacientes' : p.estado_conversa \in Estados
       /\ \A p \in pacientes' :
            (\A q \in pacientes : q.id # p.id) => p.estado_conversa = SemEstado
       /\ \A p \in pacientes :
            /\ \E q \in pacientes' : q.id = p.id
            /\ Depois(p.id).sender_id = p.sender_id
            /\ \/ Depois(p.id).estado_conversa = p.estado_conversa
               \/ /\ p.estado_conversa = SemEstado
                  /\ Depois(p.id).estado_conversa = AguardandoData
                  /\ \E w \in Workers :
                        /\ Passo(w)
                        /\ req[w].sender = p.sender_id
                        /\ AnyKeyword(agendamento_keywords, Lower(req[w].texto))
               \/ /\ p.estado_conversa = AguardandoData
                  /\ Depois(p.id).estado_conversa = AguardandoHorario
               \/ /\ p.estado_conversa = AguardandoHorario
                  /\ Depois(p.id).estado_conversa = SemEstado]_vars

\* C17's case: a known patient in state None asked for an appointment, was
\* asked for the date, and the row now awaits a date.
C17_Witness ==
    \E w \in Workers :
        /\ pc[w] = "respondido"
        /\ req[w].rota = "agente"
        /\ pac[w].estado_conversa = SemEstado
        /\ pac[w].id # 0
        /\ resp[w].tag = "pedir_data"
        /\ Recarregado(w).estado_conversa = AguardandoData

\* C18: a request handled for one sender loads no patient of another sender
\* and a step it takes changes no row of another sender: with several
\* requests in progress at once, each row still changes only in the steps
\* of its own sender's requests.
C18_EstadoPorRemetente ==
    [][\A w \in Workers :
        (Passo(w) /\ req'[w].rota = "agente") =>
            /\ pac'[w].id # 0 => pac'[w].sender_id = req'[w].sender
            /\ pac'[w].id # 0 =>
                  \E p \in pacientes : p.id = pac'[w].id /\ p.sender_id = req'[w].sender
            /\ \A p \in pacientes :
                  p.sender_id # req'[w].sender => p \in pacientes'
            /\ \A p \in pacientes' :
                  p.sender_id # req'[w].sender => p \in pacientes]_vars

\* C18's case: while a request of one sender is still being handled, a
\* request of another sender has moved that sender's row to awaiting a date,
\* and the first sender's row is as it was.
C18_Witness ==
    \E v, w \in Workers :
        /\ pc[v] = "agente"
        /\ pac[v].id # 0
        /\ pc[w] = "respondido"
        /\ req[w].rota = "agente"
        /\ req[w].sender # req[v].sender
        /\ resp[w].tag = "pedir_data"
        /\ Recarregado(w).estado_conversa = AguardandoData
        /\ Recarregado(v).estado_conversa = pac[v].estado_conversa

\* ------------------------------------------------------------ free slots

\* The nine hourly candidates of a day, in order; the i-th starts
\* 540 + 60 * (i - 1) minutes after midnight.
Candidatos ==
    << <<"0", "9", ":", "0", "0">>, <<"1", "0", ":", "0", "0">>,
       <<"1", "1", ":", "0", "0">>, <<"1", "2", ":", "0", "0">>,
       <<"1", "3", ":", "0", "0">>, <<"1", "4", ":", "0", "0">>,
       <<"1", "5", ":", "0", "0">>, <<"1", "6", ":", "0", "0">>,
       <<"1", "7", ":", "0", "0">> >>

ComecoDe(i) == 540 + 60 * (i - 1)

\* The busy intervals of day d: the events on the calendar that day.
Ocupados(d) == {[inicio |-> e.inicio, fim |-> e.fim] : e \in {x \in eventos : x.data = d}}

\* Half-open overlap of the i-th candidate with the interval b.
Bloqueia(b, i) == ComecoDe(i) < b.fim /\ ComecoDe(i) + 60 > b.inicio

\* The candidates of day d that no busy interval overlaps.
Desimpedidos(d) == {i \in 1..9 : \A b \in Ocupados(d) : ~Bloqueia(b, i)}

\* Worker w has answered a request for the free slots of a day whose
\* listing returned.
Calculou(w) ==
    /\ pc[w] = "respondido"
    /\ req[w].rota = "horarios_disponiveis"
    /\ resp[w].status = 200
    /\ resp[w].falha = "nenhuma"

\* C19: the free slots computed for a day are exactly the hourly candidates
\* from 09:00 to 17:00 that overlap no busy interval of that day, overlap
\* being half-open: none that overlaps is returned, none that does not is
\* left out, and a candidate that only touches an interval's boundary is
\* free.
C19_HorariosLivresExatos ==
    \A w \in Workers :
        Calculou(w) =>
            /\ Len(resp[w].horarios) = Cardinality(Desimpedidos(resp[w].data))
            /\ \A i \in 1..9 :
                  (\E k \in 1..Len(resp[w].horarios) : resp[w].horarios[k] = Candidatos[i])
                      <=> i \in Desimpedidos(resp[w].data)

\* C19's case: with the interval 11:00-12:00 busy, 10:00 and 12:00, which
\* touch it, are returned and 11:00 is not.
C19_Witness ==
    \E w \in Workers :
        /\ Calculou(w)
        /\ [inicio |-> 660, fim |-> 720] \in Ocupados(resp[w].data)
        /\ \E k \in 1..Len(resp[w].horarios) : resp[w].horarios[k] = Candidatos[2]
        /\ \E k \in 1..Len(resp[w].horarios) : resp[w].horarios[k] = Candidatos[4]
        /\ \A k \in 1..Len(resp[w].horarios) : resp[w].horarios[k] # Candidatos[3]

\* The place of a returned start among the candidates (0: it is none of them).
Lugar(h) ==
    IF \E i \in 1..9 : Candidatos[i] = h
    THEN CHOOSE i \in 1..9 : Candidatos[i] = h
    ELSE 0

\* C20: the free slots are returned in strictly increasing order of time
\* and none starts at or after 18:00; a day without busy intervals gives
\* exactly the nine starts 09:00 to 17:00, and a day whose only busy
\* interval is 12:00-13:00 gives exactly the other eight.
C20_OrdemEJanela ==
    \A w \in Workers :
        Calculou(w) =>
            LET h == resp[w].horarios IN
            /\ \A k \in 1..Len(h) : Lugar(h[k]) # 0
            /\ \A k \in 1..(Len(h) - 1) : Lugar(h[k]) < Lugar(h[k + 1])
            /\ Ocupados(resp[w].data) = {} => h = Candidatos
            /\ Ocupados(resp[w].data) = {[inicio |-> 720, fim |-> 780]} =>
                  h = SubSeq(Candidatos, 1, 3) \o SubSeq(Candidatos, 5, 9)

\* C20's case: the only busy interval of the day is 12:00-13:00 and eight
\* starts are returned.
C20_Witness ==
    \E w \in Workers :
        /\ Calculou(w)
        /\ Ocupados(resp[w].data) = {[inicio |-> 720, fim |-> 780]}
        /\ Len(resp[w].horarios) = 8

\* ------------------------------------------------------------ the classifier

\* What each of the texts is to be classified as: intent and confidence,
\* the latter in tenths.
Esperado(text) ==
    CASE text = << >> -> [intent |-> "UNKNOWN", confidence |-> 0]
      [] text = <<"O", "i">> -> [intent |-> "GREETING", confidence |-> 9]
      [] text = <<"o", "i", " ", "v", "a", "l", "o", "r">>
            -> [intent |-> "REQUEST_PRICE", confidence |-> 9]
      [] text = <<"v", "a", "l", "o", "r", " ", "m", "a", "r", "c", "a", "r">>
            -> [intent |-> "SCHEDULE_APPOINTMENT", confidence |-> 9]
      [] text = <<"o", "i", " ", "m", "a", "r", "c", "a", "r">>
            -> [intent |-> "SCHEDULE_APPOINTMENT", confidence |-> 9]
      [] text = <<"x", "y", "z">> -> [intent |-> "UNKNOWN", confidence |-> 3]
      [] text = <<"P", "R", "E", "Ccedil", "O">>
            -> [intent |-> "REQUEST_PRICE", confidence |-> 9]
      [] text = <<"n", "o", "i", "t", "e">> -> [intent |-> "GREETING", confidence |-> 9]
      [] text = <<"1", "0", ":", "0", "0">> -> [intent |-> "UNKNOWN", confidence |-> 3]

\* The tool the router calls for an intent.
FerramentaDe(intent) ==
    CASE intent = "SCHEDULE_APPOINTMENT" -> "agendar_consulta"
      [] intent = "REQUEST_PRICE" -> "consulta_preco"
      [] intent = "GREETING" -> "saudacao"
      [] OTHER -> "padrao"

\* C21: the classifier gives every text a result, by fixed precedence: the
\* empty text is UNKNOWN with confidence 0.0; a text with a scheduling
\* keyword is SCHEDULE_APPOINTMENT whatever else it holds; otherwise one
\* with a price keyword is REQUEST_PRICE; otherwise one with a greeting
\* keyword is GREETING, each with confidence 0.9; any other text is UNKNOWN
\* with confidence 0.3.  The turn of a patient with no conversation in
\* progress is answered by the tool of that intent.
C21_ClassificacaoPorPrecedencia ==
    \A w \in Workers :
        req[w].rota = "agente" =>
            LET text == req[w].texto
                t == Lower(text)
                r == classify_intent(text)
            IN  /\ r = Esperado(text)
                /\ r.intent \in {"SCHEDULE_APPOINTMENT", "REQUEST_PRICE",
                                 "GREETING", "UNKNOWN"}
                /\ text = << >> => r = [intent |-> "UNKNOWN", confidence |-> 0]
                /\ (text # << >> /\ AnyKeyword(agendamento_keywords, t)) =>
                      r = [intent |-> "SCHEDULE_APPOINTMENT", confidence |-> 9]
                /\ (text # << >> /\ ~AnyKeyword(agendamento_keywords, t)
                        /\ AnyKeyword(orcamento_keywords, t)) =>
                      r = [intent |-> "REQUEST_PRICE", confidence |-> 9]
                /\ (text # << >> /\ ~AnyKeyword(agendamento_keywords, t)
                        /\ ~AnyKeyword(orcamento_keywords, t)
                        /\ AnyKeyword(saudacao_keywords, t)) =>
                      r = [intent |-> "GREETING", confidence |-> 9]
                /\ (text # << >> /\ ~AnyKeyword(agendamento_keywords, t)
                        /\ ~AnyKeyword(orcamento_keywords, t)
                        /\ ~AnyKeyword(saudacao_keywords, t)) =>
                      r = [intent |-> "UNKNOWN", confidence |-> 3]
                /\ (pc[w] = "respondido" /\ pac[w].id # 0
                        /\ pac[w].estado_conversa = SemEstado) =>
                      resp[w].ferramenta = FerramentaDe(Esperado(text).intent)

\* C21's case: a text with a greeting and a price keyword was classified
\* and the price tool answered.
C21_Witness ==
    \E w \in Workers :
        /\ pc[w] = "respondido"
        /\ req[w].rota = "agente"
        /\ pac[w].id # 0
        /\ pac[w].estado_conversa = SemEstado
        /\ AnyKeyword(saudacao_keywords, Lower(req[w].texto))
        /\ AnyKeyword(orcamento_keywords, Lower(req[w].texto))
        /\ resp[w].ferramenta = "consulta_preco"

\* ------------------------------------------------------------ what the user is told

\* Worker w's turn of the agent has ended in an error.
TurnoFalhou(w) ==
    /\ pc[w] = "respondido"
    /\ req[w].rota = "agente"
    /\ resp[w].status = 500

\* C22 as claimed: the text a failed turn returns does not depend on the
\* internal error: two failed turns of the same sender, from the same stored
\* state and with the same message, return the same text whatever failed
\* in each.
C22_TextoGenerico ==
    \A v, w \in Workers :
        (/\ TurnoFalhou(v)
         /\ TurnoFalhou(w)
         /\ req[v] = req[w]
         /\ pac[v] = pac[w]) =>
            TextoDaResposta(resp[v]) = TextoDaResposta(resp[w])

\* ------------------------------------------------------------ offered slots

\* The start inicio on day d is one the slot computation can offer to
\* worker w: on the hour, from 09:00 to 17:00, and overlapped by no event
\* on the calendar that day other than the one w itself has just created.
Oferecivel(w, d, inicio) ==
    /\ \E i \in 1..9 : ComecoDe(i) = inicio
    /\ \A e \in eventos \ {ev[w]} :
          e.data = d => ~(inicio < e.fim /\ inicio + 60 > e.inicio)

\* The text names no time that can be offered to worker w on any day.
NaoOferecido(w, texto) ==
    \/ ~HMValida(texto)
    \/ \A d \in Datas : ~Oferecivel(w, d, ParseHM(texto))

=============================================================================
